---- MODULE Spec2Model ----
(***************************************************************************)
(* A model of cache-dns (src/src/index.ts): the address cache, the         *)
(* single-flight map of pending resolutions, the family resolver, the      *)
(* dual-stack combiner, the hint/family policy of lookupPromise and the    *)
(* supported-family cache.                                                 *)
(*                                                                         *)
(* JavaScript runs one job at a time.  The model keeps the promise jobs    *)
(* (microtasks) of the library in the queue mq, in the order the promise   *)
(* reactions were registered; Store, Resume, Cleanup, Wrap, Combine and   *)
(* Finish each run the job at the head of the queue.  An external          *)
(* resolution settles in a turn of its own (Settle), which needs           *)
(* an empty job queue.  User code (Lookup, setDefaults, ...) never runs    *)
(* between the jobs that a settled resolution queues inside resolve():     *)
(* those jobs are all queued before any promise the user holds settles.    *)
(***************************************************************************)
EXTENDS Integers, Sequences, FiniteSets, TLC

\* ---------------------------------------------------------------- bounds
MaxLookups == 4     \* lookups issued in one behaviour, all for one key
MaxCallers == 2     \* lookups issued in one behaviour, for any key
MaxShort == 1       \* records in one external answer, when there are two keys
MaxAwaited == 1     \* lookups issued in one behaviour, each one awaited
MaxConsults == 2    \* lookups issued in one behaviour, with or without ADDRCONFIG
MaxRecs == 3        \* records in one external answer
MaxTtl == 1         \* largest ttl (seconds) of a record
MaxSec == 1         \* whole seconds the clock covers

\* ------------------------------------------------------- program constants
IPv4 == 4
IPv6 == 6
MsPerSec == 1000

NOTFOUND == "ENOTFOUND"
NODATA == "ENODATA"
NONAME == "ENONAME"
ADDRCONFIG == "ADDRCONFIG"
V4MAPPED == "V4MAPPED"
ALL == "ALL"

\* ---------------------------------------------------- JavaScript values
\* A value that may be undefined, null, a number or a two-element array.
JsUndefined == [t |-> "undefined", v |-> <<>>]
JsNull == [t |-> "null", v |-> <<>>]
JsNum(n) == [t |-> "number", v |-> <<n>>]
JsPair(a, b) == [t |-> "array", v |-> <<a, b>>]

\* !x
Falsy(x) == x.t \in {"undefined", "null"} \/ (x.t = "number" /\ x.v[1] = 0)

\* x === y : an array is equal only to itself, and no array here is shared
StrictEq(x, y) == x.t # "array" /\ y.t # "array" /\ x = y

\* x === LookupType.IPv4 / IPv6
IsFamily(x, f) == x.t = "number" /\ x.v[1] = f

Families == {IPv4, IPv6}

FamilyStr(f) == IF f = IPv4 THEN "4" ELSE "6"

Min(S) == CHOOSE x \in S : \A y \in S : x <= y

SeqMap(Op(_), s) == [i \in 1..Len(s) |-> Op(s[i])]

\* ---------------------------------------------------------------- errors
NoError == [code |-> "", errno |-> "", syscall |-> "", hostname |-> "", message |-> ""]

makeNotFoundError(code, syscall, hostname) ==
    [code |-> NOTFOUND,
     errno |-> code,
     syscall |-> syscall,
     hostname |-> IF hostname # "" THEN hostname ELSE "undefined",
     message |-> syscall \o " " \o code \o
                 (IF hostname # "" THEN " " \o hostname ELSE "")]

InvalidFamilyError ==
    [code |-> "undefined", errno |-> "undefined", syscall |-> "undefined",
     hostname |-> "undefined", message |-> "invalid family number"]

\* ---------------------------------------------------------------- records
\* An address: what the resolver returned (the n-th address of a family),
\* the IPv4-mapped IPv6 form of one, or null.
Address(f, n) == [kind |-> IF f = IPv4 THEN "ipv4" ELSE "ipv6", n |-> n]
NullAddress == [kind |-> "null", n |-> 0]

\* ipaddr.parse(a).toIPv4MappedAddress().toString()
toIPv4MappedAddress(a) == [kind |-> "v4mapped", n |-> a.n]

\* The answers the external resolver can give for family f: the i-th record
\* holds the i-th address of the family.
\* The ttls of an answer: every record has the largest ttl, but for at most
\* one record, at any place, which may have any smaller one.
TtlSeqs ==
    UNION {{ttls \in [1..n -> 0..MaxTtl] :
              Cardinality({i \in 1..n : ttls[i] # MaxTtl}) <= 1} : n \in 0..MaxRecs}
Answer(f, ttls) == [i \in 1..Len(ttls) |-> [address |-> Address(f, i), ttl |-> ttls[i]]]

\* The errors the external resolver can fail with
ExternalCodes == {NODATA, NONAME, NOTFOUND, "ESERVFAIL"}
ExternalError(code, hostname, f) ==
    [code |-> code, errno |-> "undefined",
     syscall |-> IF f = IPv4 THEN "queryA" ELSE "queryAaaa",
     hostname |-> hostname,
     message |-> (IF f = IPv4 THEN "queryA" ELSE "queryAaaa") \o " " \o code \o " " \o hostname]

\* A new record list that starts with the cursor on its last element
NewListAtEnd(items) ==
    [items |-> items,
     rr |-> IF Len(items) > 1 THEN <<Len(items) - 1>> ELSE <<>>,
     served |-> <<>>]

\* A record list object: the array and the _rr property roundRobin hangs on
\* it (<<>> while undefined).  served is the history of the indexes that
\* roundRobin returned from this array.
NewList(items) == [items |-> items, rr |-> <<>>, served |-> <<>>]

\* ----------------------------------------------------------- AddressCache
\* The cache maps a key to {records, expiry}; records is a reference to a
\* list object (an index of lists), 0 stands for null.
\* A get that takes an entry for expired one millisecond early
AddressCacheGetEarly(c, ls, key, t) ==
    IF key \notin DOMAIN c
    THEN [records |-> 0, cache |-> c]
    ELSE LET entry == c[key]
         IN  IF Len(ls[entry.records].items) = 0 \/ entry.expiry <= t + 1
             THEN [records |-> 0,
                   cache |-> [k \in DOMAIN c \ {key} |-> c[k]]]
             ELSE [records |-> entry.records, cache |-> c]

AddressCacheGet(c, ls, key, t) ==
    IF key \notin DOMAIN c
    THEN [records |-> 0, cache |-> c]
    ELSE LET entry == c[key]
         IN  IF Len(ls[entry.records].items) = 0 \/ entry.expiry <= t
             THEN [records |-> 0,
                   cache |-> [k \in DOMAIN c \ {key} |-> c[k]]]
             ELSE [records |-> entry.records, cache |-> c]

\* A set that takes the ttl of the first record for the ttl of the entry
AddressCacheSetFirst(c, ls, key, records, t) ==
    LET items == ls[records].items
    IN  IF Len(items) = 0
        THEN c
        ELSE [k \in DOMAIN c \cup {key} |->
                IF k = key
                THEN [records |-> records, expiry |-> t + items[1].ttl * MsPerSec]
                ELSE c[k]]

AddressCacheSet(c, ls, key, records, t) ==
    LET items == ls[records].items
    IN  IF Len(items) = 0
        THEN c
        ELSE LET expiry == Min({t + items[i].ttl * MsPerSec : i \in 1..Len(items)})
             IN  [k \in DOMAIN c \cup {key} |->
                    IF k = key THEN [records |-> records, expiry |-> expiry]
                    ELSE c[k]]

\* -------------------------------------------------------------- roundRobin
\* Returns the index (from 0) of the element it returns, -1 for undefined,
\* and the array with its _rr updated.
\* A roundRobin that never moves on from the first element
roundRobinFirst(arr) ==
    IF Len(arr.items) = 0
    THEN [idx |-> -1, arr |-> arr]
    ELSE [idx |-> 0, arr |-> [arr EXCEPT !.rr = <<0>>, !.served = Append(@, 0)]]

roundRobin(arr) ==
    IF Len(arr.items) = 0
    THEN [idx |-> -1, arr |-> arr]
    ELSE IF arr.rr = <<>>
    THEN [idx |-> 0, arr |-> [arr EXCEPT !.rr = <<0>>, !.served = Append(@, 0)]]
    ELSE IF Len(arr.items) = 1
    THEN [idx |-> 0, arr |-> [arr EXCEPT !.served = Append(@, 0)]]
    ELSE IF arr.rr[1] >= Len(arr.items) - 1 \/ arr.rr[1] < 0
    THEN [idx |-> 0, arr |-> [arr EXCEPT !.rr = <<0>>, !.served = Append(@, 0)]]
    ELSE [idx |-> arr.rr[1] + 1,
          arr |-> [arr EXCEPT !.rr = <<arr.rr[1] + 1>>,
                              !.served = Append(@, arr.rr[1] + 1)]]

\* ------------------------------------------------------------ mapAddresses
RECURSIVE mapAddressesFrom(_, _, _)
mapAddressesFrom(results, i, pushBothv4Andv4Mapped) ==
    IF i > Len(results)
    THEN <<>>
    ELSE LET result == results[i]
             rest == mapAddressesFrom(results, i + 1, pushBothv4Andv4Mapped)
             mapped == [address |-> toIPv4MappedAddress(result.address),
                        family |-> IPv6]
         IN  IF result.family = IPv6
             THEN <<result>> \o rest
             ELSE IF pushBothv4Andv4Mapped
             THEN <<result, mapped>> \o rest
             ELSE <<mapped>> \o rest

mapAddresses(results, hints) == mapAddressesFrom(results, 1, hints # {} /\ ALL \in hints)

\* ---------------------------------------------------- getSupportedFamilies
\* os.networkInterfaces(): the addresses of the interfaces, each internal
\* or not, each of one family.
InterfaceInfos == [internal : BOOLEAN, family : Families]
InterfaceSets ==
    SUBSET {[internal |-> TRUE, family |-> IPv4],
            [internal |-> FALSE, family |-> IPv4],
            [internal |-> FALSE, family |-> IPv6]}

\* supported.entries().next().value of a Set: the first [value, value] pair
SetEntriesFirst(S) == LET v == CHOOSE x \in S : TRUE IN JsPair(v, v)

\* A getSupportedFamilies that does not cache undefined
getSupportedFamiliesUncached(cached, ifaces) ==
    IF cached = JsNull
    THEN LET supported == {net.family : net \in {x \in ifaces : ~x.internal}}
         IN  IF Cardinality(supported) = 0 \/ Cardinality(supported) = 2
             THEN [ret |-> JsUndefined, cached |-> JsNull, enumerated |-> TRUE]
             ELSE [ret |-> SetEntriesFirst(supported),
                   cached |-> SetEntriesFirst(supported),
                   enumerated |-> TRUE]
    ELSE [ret |-> cached, cached |-> cached, enumerated |-> FALSE]

\* Returns the value, the new cachedSupportedFamilies, and whether the
\* interfaces were enumerated.
getSupportedFamilies(cached, ifaces) ==
    IF cached = JsNull
    THEN LET supported == {net.family : net \in {x \in ifaces : ~x.internal}}
         IN  IF Cardinality(supported) = 0 \/ Cardinality(supported) = 2
             THEN [ret |-> JsUndefined, cached |-> JsUndefined, enumerated |-> TRUE]
             ELSE [ret |-> SetEntriesFirst(supported),
                   cached |-> SetEntriesFirst(supported),
                   enumerated |-> TRUE]
    ELSE [ret |-> cached, cached |-> cached, enumerated |-> FALSE]

\* ------------------------------------------------------------------ state
VARIABLES
    now,                      \* Date.now(), in milliseconds
    cache,                    \* addressCache.cache: key -> {records, expiry}
    pendingLookups,           \* pendingLookups: key -> pending promise (a call)
    lists,                    \* the record list objects, by reference
    calls,                    \* the external resolutions begun, with their promise
    lookups,                  \* the lookupPromise calls made, with their progress
    mq,                       \* the promise jobs queued, oldest first
    cacheDnsDefaults,         \* {defaultFamily, defaultHints}
    cachedSupportedFamilies,  \* null, undefined or the cached family value
    issued,                   \* the lookupPromise call the last step made, if any
    settled                   \* the lookups whose promise the last step settled

vars == <<now, cache, pendingLookups, lists, calls, lookups, mq,
          cacheDnsDefaults, cachedSupportedFamilies, issued, settled>>

\* Objects are kept in slots: a new one takes the first free slot, and free
\* slots at the end are cut off.
FreeSlot(seq, free) ==
    IF \E i \in 1..Len(seq) : seq[i] = free
    THEN Min({i \in 1..Len(seq) : seq[i] = free})
    ELSE Len(seq) + 1

PutAt(seq, i, v) == IF i = Len(seq) + 1 THEN Append(seq, v) ELSE [seq EXCEPT ![i] = v]

RECURSIVE Trim(_, _)
Trim(seq, free) ==
    IF seq # <<>> /\ seq[Len(seq)] = free
    THEN Trim(SubSeq(seq, 1, Len(seq) - 1), free)
    ELSE seq

\* `${hostname}_${options.family}`
Key(hostname, family) == hostname \o "_" \o FamilyStr(family)

\* A pendingLookups.get that finds nothing
PendingGetNone(p, key) == 0

\* pendingLookups.get(key): the pending promise, 0 for undefined
PendingGet(p, key) == IF key \in DOMAIN p THEN p[key] ELSE 0

\* pendingLookups.set(key, pendingPromise)
PendingSet(p, key, c) == [k \in DOMAIN p \cup {key} |-> IF k = key THEN c ELSE p[k]]

\* A pendingLookups.delete that deletes nothing
PendingKeep(p, key) == p

\* pendingLookups.delete(key)
PendingDelete(p, key) == [k \in DOMAIN p \ {key} |-> p[k]]

Job(kind, call, lookup, family) ==
    [kind |-> kind, call |-> call, lookup |-> lookup, family |-> family]

\* The jobs that run inside resolve() once an external resolution settled
InternalKinds == {"store", "resume", "cleanup"}
InternalJobsPending == \E i \in 1..Len(mq) : mq[i].kind \in InternalKinds

NoBranch == [st |-> "none", call |-> 0, val |-> <<>>, err |-> NoError]

\* ------------------------------------------------------------------ resolve
\* Lines 286-302: all the records, or the one roundRobin picks.
Select(ls, ref, all) ==
    IF all
    THEN [lists |-> ls, idx |-> -1,
          val |-> [i \in 1..Len(ls[ref].items) |->
                     [address |-> ls[ref].items[i].address,
                      family |-> ls[ref].items[i].family]]]
    ELSE LET r == roundRobin(ls[ref])
             ls1 == [ls EXCEPT ![ref] = r.arr]
         IN  IF r.idx = -1
             THEN [lists |-> ls1, idx |-> -1, val |-> <<>>]
             ELSE [lists |-> ls1, idx |-> r.idx,
                   val |-> <<[address |-> ls[ref].items[r.idx + 1].address,
                              family |-> ls[ref].items[r.idx + 1].family]>>]

\* A call of dns.promises.resolve4 / resolve6 and the pendingPromise made of
\* it: answered is the number of records the resolver answered with (-1: it
\* has not, or it failed); state, value and reason are those of
\* pendingPromise; waiters are the resolve() calls that await it.
NewCall(key, hostname, family, l) ==
    [key |-> key, hostname |-> hostname, family |-> family, answered |-> -1,
     state |-> "pending", value |-> 0, reason |-> NoError,
     waiters |-> <<<<l, family>>>>]

\* The free slots of calls and of lists
DoneCall == [NewCall("", "", 0, 0) EXCEPT !.state = "done", !.waiters = <<>>]
NoList == NewList(<<>>)

\* Lines 250-275 and, on a cache hit, 286-302: resolve() up to its await.
\* W holds the cache, the pending map, the calls and the lists; l is the
\* lookup that calls.  Returns the new W, the branch of l for the family,
\* where the records come from (the cache, a new call or a call joined) and
\* whether addressCache.get deleted the entry of the key.
resolveEnter(W, l, hostname, family, all, t) ==
    LET key == Key(hostname, family)
        got == AddressCacheGet(W.cache, W.lists, key, t)
        W1 == [W EXCEPT !.cache = got.cache]
        deleted == DOMAIN got.cache # DOMAIN W.cache
        pendingPromise == PendingGet(W1.pending, key)
        c == FreeSlot(W1.calls, DoneCall)
    IN  IF got.records # 0
        THEN LET sel == Select(W1.lists, got.records, all)
             IN  [W |-> [W1 EXCEPT !.lists = sel.lists],
                  src |-> "cache", deleted |-> deleted,
                  br |-> [NoBranch EXCEPT !.st = "ok", !.val = sel.val]]
        ELSE IF pendingPromise # 0
        THEN [W |-> [W1 EXCEPT !.calls[pendingPromise].waiters =
                                    Append(@, <<l, family>>)],
              src |-> "joined", deleted |-> deleted,
              br |-> [NoBranch EXCEPT !.st = "wait", !.call = pendingPromise]]
        ELSE [W |-> [W1 EXCEPT
                       !.calls = PutAt(@, c, NewCall(key, hostname, family, l)),
                       !.pending = PendingSet(@, key, c)],
              src |-> "new", deleted |-> deleted,
              br |-> [NoBranch EXCEPT !.st = "wait", !.call = c]]

\* A resolve() that rethrows whatever pendingPromise was rejected with
resolveResumeRaw(ls, call, b, hostname, all) ==
    IF call.state = "rejected"
    THEN [lists |-> ls, br |-> [b EXCEPT !.st = "err", !.err = call.reason]]
    ELSE LET sel == Select(ls, call.value, all)
         IN  [lists |-> sel.lists,
              br |-> [b EXCEPT !.st = "ok", !.val = sel.val]]

\* Lines 276-302: resolve() from its await on, for a settled promise.
resolveResume(ls, call, b, hostname, all) ==
    IF call.state = "rejected"
    THEN LET e == call.reason
         IN  [lists |-> ls,
              br |-> [b EXCEPT !.st = "err",
                               !.err = IF e.code = NODATA \/ e.code = NONAME
                                       THEN makeNotFoundError(e.code, e.syscall, hostname)
                                       ELSE e]]
    ELSE LET sel == Select(ls, call.value, all)
         IN  [lists |-> sel.lists,
              br |-> [b EXCEPT !.st = "ok", !.val = sel.val]]

\* ------------------------------------------------------------ lookupPromise
\* Lines 219-220
resultHandler(results, all) ==
    IF all THEN [shape |-> "list", value |-> results]
    ELSE IF Len(results) = 0 THEN [shape |-> "undefined", value |-> <<>>]
    ELSE [shape |-> "one", value |-> <<results[1]>>]

\* An empty-hostname result that is always tagged IPv4
emptyHostnameV4(family, all) ==
    IF all
    THEN [shape |-> "list", value |-> <<>>]
    ELSE [shape |-> "one", value |-> <<[address |-> NullAddress, family |-> IPv4]>>]

\* Lines 195-206: the result for an empty hostname
emptyHostname(family, all) ==
    IF all
    THEN [shape |-> "list", value |-> <<>>]
    ELSE [shape |-> "one",
          value |-> <<[address |-> NullAddress,
                       family |-> IF IsFamily(family, IPv6) THEN IPv6 ELSE IPv4]>>]

\* A policy that takes any family it does not know for no family
PolicyAny(family, hints, consult, supportedFamilies) ==
    LET restricted == consult /\ supportedFamilies # JsUndefined
        family2 == IF restricted /\ Falsy(family) THEN supportedFamilies ELSE family
    IN  IF restricted /\ ~Falsy(family) /\ ~StrictEq(family, supportedFamilies)
        THEN [path |-> "reject", family |-> family]
        ELSE IF IsFamily(family2, IPv6) /\ hints # {} /\ V4MAPPED \in hints
        THEN [path |-> "mapped", family |-> family2]
        ELSE IF IsFamily(family2, IPv4) \/ IsFamily(family2, IPv6)
        THEN [path |-> "single", family |-> family2]
        ELSE [path |-> "both", family |-> family2]

\* Lines 208-241: the path a lookup with a hostname takes, and the family
\* value options.family ends with.  consult: the hints hold ADDRCONFIG;
\* supportedFamilies: what getSupportedFamilies() returned.
Policy(family, hints, consult, supportedFamilies) ==
    LET restricted == consult /\ supportedFamilies # JsUndefined
        family2 == IF restricted /\ Falsy(family) THEN supportedFamilies ELSE family
    IN  IF restricted /\ ~Falsy(family) /\ ~StrictEq(family, supportedFamilies)
        THEN [path |-> "reject", family |-> family]
        ELSE IF IsFamily(family2, IPv6) /\ hints # {} /\ V4MAPPED \in hints
        THEN [path |-> "mapped", family |-> family2]
        ELSE IF IsFamily(family2, IPv4) \/ IsFamily(family2, IPv6)
        THEN [path |-> "single", family |-> family2]
        ELSE IF family2 = JsUndefined
        THEN [path |-> "both", family |-> family2]
        ELSE [path |-> "invalid", family |-> family2]

\* A lookup in progress: hints is what mapAddresses still reads of
\* options.hints, the ALL flag of a lookup that maps.
NewLookup(hostname, path, hints, all) ==
    [hostname |-> hostname, all |-> all, path |-> path,
     hints |-> IF path = "mapped" THEN hints \cap {ALL} ELSE {},
     br |-> [f \in Families |-> NoBranch],
     wrapped |-> [f \in Families |-> [done |-> FALSE, val |-> <<>>]],
     both |-> "none", thrown |-> NoError,
     state |-> "pending", shape |-> "", value |-> <<>>, reason |-> NoError]

\* A resolve() whose return reaches nobody
AfterResolveLost(path, l, f) == Job("lost", 0, l, f)

\* The job that carries a branch on once resolve() has returned
AfterResolve(path, l, f) ==
    IF path = "single" THEN Job("finish", 0, l, f) ELSE Job("wrap", 0, l, f)

\* ------------------------------------------------------ what is forgotten
\* The model keeps no history.  A lookup whose promise has settled is handed
\* to the caller (settled) and its record is dropped, unless one of its
\* resolve() branches still runs (Promise.all rejected by the other branch);
\* a settled call is dropped once its last job has run; a record list is
\* dropped once neither the cache nor a settled call refers to it.
DoneLookup == [NewLookup("", "", {}, FALSE) EXCEPT !.state = "done"]

BranchRuns(lk, f) ==
    /\ lk.br[f].st # "none"
    /\ IF lk.path = "single" THEN lk.state = "pending" ELSE ~lk.wrapped[f].done

Forget(lk) ==
    IF lk.state \in {"pending", "done"}
    THEN lk
    ELSE IF \E f \in Families : BranchRuns(lk, f)
    THEN [NewLookup(lk.hostname, lk.path, {}, lk.all) EXCEPT
            !.br = lk.br, !.wrapped = lk.wrapped,
            !.both = lk.both, !.thrown = lk.thrown, !.state = "settled"]
    ELSE DoneLookup

Collect(ls, c, cs) ==
    Trim([i \in 1..Len(ls) |->
            IF \/ \E k \in DOMAIN c : c[k].records = i
               \/ \E n \in 1..Len(cs) : cs[n].value = i
            THEN ls[i]
            ELSE NoList], NoList)

\* ---------------------------------------------------------------- actions
Init ==
    /\ now = 0
    /\ cache = <<>>
    /\ pendingLookups = <<>>
    /\ lists = <<>>
    /\ calls = <<>>
    /\ lookups = <<>>
    /\ mq = <<>>
    /\ cacheDnsDefaults = [defaultFamily |-> JsUndefined, defaultHints |-> {}]
    /\ cachedSupportedFamilies = JsNull
    /\ issued = <<>>
    /\ settled = <<>>

\* lookupPromise(hostname, {family, hints, all}), lines 174-242, up to the
\* first await; ifaces is what os.networkInterfaces() returns if it is asked.
Lookup(hostname, family, hints, all, ifaces) ==
    /\ ~InternalJobsPending
    /\ LET l == Len(lookups) + 1
           family1 == IF Falsy(family) THEN cacheDnsDefaults.defaultFamily ELSE family
           hints1 == IF hints = {} THEN cacheDnsDefaults.defaultHints ELSE hints
           consult == hostname # "" /\ hints1 # {} /\ ADDRCONFIG \in hints1
           sf == IF consult
                 THEN getSupportedFamilies(cachedSupportedFamilies, ifaces)
                 ELSE [ret |-> JsUndefined, cached |-> cachedSupportedFamilies,
                       enumerated |-> FALSE]
           pol == IF hostname = ""
                  THEN [path |-> "empty", family |-> family1]
                  ELSE Policy(family1, hints1, consult, sf.ret)
           lk0 == NewLookup(hostname, pol.path, hints1, all)
           W0 == [cache |-> cache, pending |-> pendingLookups,
                  calls |-> calls, lists |-> lists]
           first == IF pol.path = "single" THEN pol.family.v[1] ELSE IPv4
           r1 == resolveEnter(W0, l, hostname, first, all, now)
           r2 == resolveEnter(r1.W, l, hostname, IPv6, all, now)
           empty == emptyHostname(family1, all)
           W == CASE pol.path = "single" -> r1.W
                  [] pol.path \in {"both", "mapped"} -> r2.W
                  [] OTHER -> W0
           lk == CASE pol.path = "empty" ->
                        [lk0 EXCEPT !.state = "fulfilled", !.shape = empty.shape,
                                    !.value = empty.value]
                   [] pol.path = "reject" ->
                        [lk0 EXCEPT !.state = "rejected",
                                    !.reason = makeNotFoundError("undefined",
                                                   "getaddrinfo", hostname)]
                   [] pol.path = "invalid" ->
                        [lk0 EXCEPT !.state = "rejected", !.reason = InvalidFamilyError]
                   [] pol.path = "single" ->
                        [lk0 EXCEPT !.br[first] = r1.br]
                   [] OTHER ->
                        [lk0 EXCEPT !.br[IPv4] = r1.br, !.br[IPv6] = r2.br,
                                    !.both = "pending"]
           jobs == CASE pol.path = "single" ->
                          IF r1.br.st = "ok" THEN <<AfterResolve(pol.path, l, first)>>
                          ELSE <<>>
                     [] pol.path \in {"both", "mapped"} ->
                          (IF r1.br.st = "ok" THEN <<AfterResolve(pol.path, l, IPv4)>>
                           ELSE <<>>) \o
                          (IF r2.br.st = "ok" THEN <<AfterResolve(pol.path, l, IPv6)>>
                           ELSE <<>>)
                     [] OTHER -> <<>>
           src == CASE pol.path = "single" ->
                         [f \in Families |-> IF f = first THEN r1.src ELSE "none"]
                    [] pol.path \in {"both", "mapped"} ->
                         [f \in Families |-> IF f = IPv4 THEN r1.src ELSE r2.src]
                    [] OTHER -> [f \in Families |-> "none"]
           deleted == CASE pol.path = "single" ->
                             IF r1.deleted THEN {first} ELSE {}
                        [] pol.path \in {"both", "mapped"} ->
                             (IF r1.deleted THEN {IPv4} ELSE {}) \cup
                             (IF r2.deleted THEN {IPv6} ELSE {})
                        [] OTHER -> {}
       IN  /\ lookups' = Append(lookups, Forget(lk))
           /\ issued' = <<[hostname |-> hostname, family |-> family,
                           hints |-> hints, all |-> all,
                           options |-> [family |-> pol.family, hints |-> hints1],
                           consulted |-> consult, supported |-> sf.ret,
                           enumerated |-> sf.enumerated,
                           path |-> pol.path, src |-> src,
                           deleted |-> deleted]>>
           /\ settled' = IF lk.state = "pending" THEN <<>> ELSE <<lk>>
           /\ cache' = W.cache
           /\ pendingLookups' = W.pending
           /\ calls' = W.calls
           /\ lists' = Collect(W.lists, W.cache, W.calls)
           /\ mq' = mq \o jobs
           /\ cachedSupportedFamilies' = sf.cached
    /\ UNCHANGED <<now, cacheDnsDefaults>>

\* The external resolution of call c settles and the handler of lines
\* 259-266 runs: an empty answer throws not-found, any other answer becomes
\* the record list, each record tagged with the family.  The reactions to
\* pendingPromise are queued in the order they were registered: the cache
\* write of lines 269-273 first, then the awaits of line 277.
\* A handler that lets an empty answer through as an empty record list
SettledCallEmpty(call, ok, answer, error) ==
    IF ~ok
    THEN [call EXCEPT !.state = "rejected", !.reason = error]
    ELSE [call EXCEPT !.answered = Len(answer), !.state = "fulfilled",
                      !.value = FreeSlot(lists, NoList)]

SettledCall(call, ok, answer, error) ==
    IF ~ok
    THEN [call EXCEPT !.state = "rejected", !.reason = error]
    ELSE IF Len(answer) = 0
    THEN [call EXCEPT !.answered = 0, !.state = "rejected",
                      !.reason = makeNotFoundError("undefined", "getaddrinfo",
                                                   call.hostname)]
    ELSE [call EXCEPT !.answered = Len(answer), !.state = "fulfilled",
                      !.value = FreeSlot(lists, NoList)]

TagFamily(answer, family) ==
    [i \in 1..Len(answer) |->
       [address |-> answer[i].address, ttl |-> answer[i].ttl, family |-> family]]

Settle(c, ok, answer, error) ==
    /\ mq = <<>>
    /\ c \in 1..Len(calls)
    /\ calls[c].state = "pending"
    /\ LET call == SettledCall(calls[c], ok, answer, error)
       IN  /\ calls' = [calls EXCEPT ![c] = call]
           /\ lists' = IF call.state = "fulfilled"
                       THEN PutAt(lists, call.value, NewList(TagFamily(answer, call.family)))
                       ELSE lists
           /\ mq' = <<Job("store", c, 0, 0)>> \o
                    [i \in 1..Len(call.waiters) |->
                       Job("resume", c, call.waiters[i][1], call.waiters[i][2])]
    /\ settled' = <<>>
    /\ issued' = <<>>
    /\ UNCHANGED <<now, cache, pendingLookups, lookups, cacheDnsDefaults,
                   cachedSupportedFamilies>>

SettleOk(c, ttls) ==
    /\ c \in 1..Len(calls)
    /\ Settle(c, TRUE, Answer(calls[c].family, ttls), NoError)

SettleError(c, code) ==
    /\ c \in 1..Len(calls)
    /\ Settle(c, FALSE, <<>>, ExternalError(code, calls[c].hostname, calls[c].family))

\* A cache write that writes nothing
StoreCacheNever(c) == cache

\* A cache write that empties the cache when the resolution failed
StoreCacheClear(c) ==
    IF calls[c].state = "fulfilled"
    THEN AddressCacheSet(cache, lists, calls[c].key, calls[c].value, now)
    ELSE <<>>

\* Lines 269-273: records => addressCache.set(key, records), () => {}
\* and then the finally of line 274 is queued.
StoreCache(c) ==
    IF calls[c].state = "fulfilled"
    THEN AddressCacheSet(cache, lists, calls[c].key, calls[c].value, now)
    ELSE cache

Store ==
    /\ mq # <<>>
    /\ Head(mq).kind = "store"
    /\ cache' = StoreCache(Head(mq).call)
    /\ mq' = Append(Tail(mq), Job("cleanup", Head(mq).call, 0, 0))
    /\ settled' = <<>>
    /\ issued' = <<>>
    /\ UNCHANGED <<now, pendingLookups, lists, calls, lookups, cacheDnsDefaults,
                   cachedSupportedFamilies>>

\* Line 274: .finally(() => pendingLookups.delete(key))
Cleanup ==
    /\ mq # <<>>
    /\ Head(mq).kind = "cleanup"
    /\ pendingLookups' = PendingDelete(pendingLookups, calls[Head(mq).call].key)
    /\ calls' = Trim([calls EXCEPT ![Head(mq).call] = DoneCall], DoneCall)
    /\ lists' = Collect(lists, cache, calls')
    /\ mq' = Tail(mq)
    /\ settled' = <<>>
    /\ issued' = <<>>
    /\ UNCHANGED <<now, cache, lookups, cacheDnsDefaults,
                   cachedSupportedFamilies>>

\* Lines 276-302: a caller's await of pendingPromise returns or throws.
Resume ==
    /\ mq # <<>>
    /\ Head(mq).kind = "resume"
    /\ LET j == Head(mq)
           lk == lookups[j.lookup]
           r == resolveResume(lists, calls[j.call], lk.br[j.family],
                              lk.hostname, lk.all)
       IN  /\ lists' = r.lists
           /\ lookups' = [lookups EXCEPT ![j.lookup].br[j.family] = r.br]
           /\ mq' = Append(Tail(mq), AfterResolve(lk.path, j.lookup, j.family))
    /\ settled' = <<>>
    /\ issued' = <<>>
    /\ UNCHANGED <<now, cache, pendingLookups, calls, cacheDnsDefaults,
                   cachedSupportedFamilies>>

\* ------------------------------------------------------------- resolveBoth
\* A wrapNotFound that turns every error into []
wrapNotFoundAll(b) ==
    IF b.st = "ok"
    THEN [ok |-> TRUE, val |-> b.val, err |-> NoError]
    ELSE [ok |-> TRUE, val |-> <<>>, err |-> NoError]

\* Lines 309-320: a branch's result, its not-found error turned into [].
wrapNotFound(b) ==
    IF b.st = "ok"
    THEN [ok |-> TRUE, val |-> b.val, err |-> NoError]
    ELSE IF b.err.code = NOTFOUND
    THEN [ok |-> TRUE, val |-> <<>>, err |-> NoError]
    ELSE [ok |-> FALSE, val |-> <<>>, err |-> b.err]

\* A combination that puts IPv6 first
resolveBothCombineSwapped(v4records, v6records, all, hostname) ==
    LET result == IF all THEN v6records \o v4records
                  ELSE IF Len(v6records) > 0 THEN v6records
                  ELSE v4records
    IN  IF Len(result) = 0
        THEN [ok |-> FALSE, result |-> <<>>,
              err |-> makeNotFoundError("undefined", "getaddrinfo", hostname)]
        ELSE [ok |-> TRUE, result |-> result, err |-> NoError]

\* A combination that returns an empty result as it is
resolveBothCombineEmpty(v4records, v6records, all, hostname) ==
    [ok |-> TRUE,
     result |-> IF all THEN v4records \o v6records
                ELSE IF Len(v4records) > 0 THEN v4records
                ELSE v6records,
     err |-> NoError]

\* Lines 325-340: the two families' results combined.
resolveBothCombine(v4records, v6records, all, hostname) ==
    LET result == IF all THEN v4records \o v6records
                  ELSE IF Len(v4records) > 0 THEN v4records
                  ELSE v6records
    IN  IF Len(result) = 0
        THEN [ok |-> FALSE, result |-> <<>>,
              err |-> makeNotFoundError("undefined", "getaddrinfo", hostname)]
        ELSE [ok |-> TRUE, result |-> result, err |-> NoError]

\* One branch of resolveBoth settles.  Promise.all rejects with the first
\* branch that throws, fulfils once both branches have a value.
Wrap ==
    /\ mq # <<>>
    /\ Head(mq).kind = "wrap"
    /\ LET j == Head(mq)
           lk == lookups[j.lookup]
           w == wrapNotFound(lk.br[j.family])
           lk1 == [lk EXCEPT !.wrapped[j.family] = [done |-> TRUE, val |-> w.val]]
       IN  IF w.ok /\ lk.both = "pending" /\ \A g \in Families : lk1.wrapped[g].done
           THEN /\ lookups' = [lookups EXCEPT ![j.lookup] =
                                  [lk1 EXCEPT !.both = "fulfilled"]]
                /\ mq' = Append(Tail(mq), Job("combine", 0, j.lookup, 0))
           ELSE IF ~w.ok /\ lk.both = "pending"
           THEN /\ lookups' = [lookups EXCEPT ![j.lookup] =
                                  [lk1 EXCEPT !.both = "rejected", !.thrown = w.err]]
                /\ mq' = Append(Tail(mq), Job("finish", 0, j.lookup, 0))
           ELSE /\ lookups' = [lookups EXCEPT ![j.lookup] = Forget(lk1)]
                /\ mq' = Tail(mq)
    /\ settled' = <<>>
    /\ issued' = <<>>
    /\ UNCHANGED <<now, cache, pendingLookups, lists, calls, cacheDnsDefaults,
                   cachedSupportedFamilies>>

\* Lines 325-340, then 228-229 or 238: the combined result reaches the caller.
Combine ==
    /\ mq # <<>>
    /\ Head(mq).kind = "combine"
    /\ LET j == Head(mq)
           lk == lookups[j.lookup]
           c == resolveBothCombine(lk.wrapped[IPv4].val, lk.wrapped[IPv6].val,
                                   lk.all, lk.hostname)
           results == IF lk.path = "mapped"
                      THEN mapAddresses(c.result, lk.hints)
                      ELSE c.result
           out == resultHandler(results, lk.all)
           lk1 == IF c.ok
                  THEN [lk EXCEPT !.state = "fulfilled", !.shape = out.shape,
                                  !.value = out.value]
                  ELSE [lk EXCEPT !.state = "rejected", !.reason = c.err]
       IN  /\ lookups' = [lookups EXCEPT ![j.lookup] = Forget(lk1)]
           /\ settled' = <<lk1>>
           /\ issued' = <<>>
    /\ mq' = Tail(mq)
    /\ UNCHANGED <<now, cache, pendingLookups, lists, calls, cacheDnsDefaults,
                   cachedSupportedFamilies>>

\* Lines 234-236: resolve()'s result reaches the caller; or the error that
\* rejected Promise.all does.
Finish ==
    /\ mq # <<>>
    /\ Head(mq).kind = "finish"
    /\ LET j == Head(mq)
           lk == lookups[j.lookup]
           b == lk.br[j.family]
           out == resultHandler(b.val, lk.all)
           lk1 == IF lk.path # "single"
                  THEN [lk EXCEPT !.state = "rejected", !.reason = lk.thrown]
                  ELSE IF b.st = "ok"
                  THEN [lk EXCEPT !.state = "fulfilled", !.shape = out.shape,
                                  !.value = out.value]
                  ELSE [lk EXCEPT !.state = "rejected", !.reason = b.err]
       IN  /\ lookups' = [lookups EXCEPT ![j.lookup] = Forget(lk1)]
           /\ settled' = <<lk1>>
           /\ issued' = <<>>
    /\ mq' = Tail(mq)
    /\ UNCHANGED <<now, cache, pendingLookups, lists, calls, cacheDnsDefaults,
                   cachedSupportedFamilies>>

\* ------------------------------------------------------------ environment
\* The instants at which the clock is read: each whole second of the range,
\* and the millisecond before the next.
Instants == {s * MsPerSec + o : s \in 0..MaxSec, o \in {0, MsPerSec - 1}}

Tick(t) ==
    /\ mq = <<>>
    /\ t > now
    /\ now' = t
    /\ settled' = <<>>
    /\ issued' = <<>>
    /\ UNCHANGED <<cache, pendingLookups, lists, calls, lookups, mq,
                   cacheDnsDefaults, cachedSupportedFamilies>>

\* setDefaults(defaults), lines 445-447: the keys given replace the old ones.
SetDefaults(hasFamily, family, hasHints, hints) ==
    /\ ~InternalJobsPending
    /\ cacheDnsDefaults' =
         [defaultFamily |-> IF hasFamily THEN family ELSE cacheDnsDefaults.defaultFamily,
          defaultHints |-> IF hasHints THEN hints ELSE cacheDnsDefaults.defaultHints]
    /\ settled' = <<>>
    /\ issued' = <<>>
    /\ UNCHANGED <<now, cache, pendingLookups, lists, calls, lookups, mq,
                   cachedSupportedFamilies>>

\* clearSupportedFamilies(), lines 427-429
ClearSupportedFamilies ==
    /\ ~InternalJobsPending
    /\ cachedSupportedFamilies' = JsNull
    /\ settled' = <<>>
    /\ issued' = <<>>
    /\ UNCHANGED <<now, cache, pendingLookups, lists, calls, lookups, mq,
                   cacheDnsDefaults>>

\* ---------------------------------------------------------- specifications
HostName == "h"

\* The ttls of the answers of the specifications with two keys
ShortTtlSeqs == {ttls \in TtlSeqs : Len(ttls) <= MaxShort}

\* The ttls of the answers to a caller who awaits: the clock stands still,
\* so that all records live equally long
LongTtlSeqs == {ttls \in ShortTtlSeqs : \A i \in 1..Len(ttls) : ttls[i] = MaxTtl}

\* What a caller may pass as family (5 is no family), and as hints
FamilyValues == {JsUndefined, JsNum(0), JsNum(IPv4), JsNum(IPv6), JsNum(5)}
HintValues == SUBSET {ADDRCONFIG, V4MAPPED, ALL}

\* What the caller may pass to setDefaults
DefaultFamilyValues == {JsUndefined, JsNum(IPv4), JsNum(5)}
DefaultHintValues == {{}, {ADDRCONFIG}}

\* What os.networkInterfaces() may return to a lookup: it is only called
\* when the hints hold ADDRCONFIG and no value is cached.
Interfaces(hostname, hints) ==
    IF /\ hostname # ""
       /\ ADDRCONFIG \in (IF hints = {} THEN cacheDnsDefaults.defaultHints ELSE hints)
       /\ cachedSupportedFamilies = JsNull
    THEN InterfaceSets
    ELSE {{}}

\* No lookup is in progress
Idle == mq = <<>> /\ \A l \in 1..Len(lookups) : lookups[l].state = "done"

\* SpecOne: concurrent callers of resolve(h, IPv4): lookups that name the
\* family and give no hints.
NextOne ==
    \/ \E all \in BOOLEAN :
          /\ Len(lookups) < MaxLookups
          /\ Lookup(HostName, JsNum(IPv4), {}, all, {})
    \/ \E c \in 1..Len(calls), ttls \in TtlSeqs : SettleOk(c, ttls)
    \/ \E c \in 1..Len(calls), code \in ExternalCodes : SettleError(c, code)
    \/ Store
    \/ Resume
    \/ Cleanup
    \/ Finish
    \/ \E t \in Instants : Tick(t)

SpecOne == Init /\ [][NextOne]_vars

\* SpecResolve: concurrent callers of resolve(h, f) for both families, the
\* clock standing still.
NextResolve ==
    \/ \E f \in Families, all \in BOOLEAN :
          /\ Len(lookups) < MaxCallers
          /\ Lookup(HostName, JsNum(f), {}, all, {})
    \/ \E c \in 1..Len(calls), ttls \in ShortTtlSeqs : SettleOk(c, ttls)
    \/ \E c \in 1..Len(calls), code \in ExternalCodes : SettleError(c, code)
    \/ Store
    \/ Resume
    \/ Cleanup
    \/ Finish

SpecResolve == Init /\ [][NextResolve]_vars

\* SpecResolveFair: SpecResolve, with the job queue of JavaScript: a promise
\* job that is queued runs.
SpecResolveFair ==
    /\ SpecResolve
    /\ WF_vars(Store)
    /\ WF_vars(Resume)
    /\ WF_vars(Cleanup)
    /\ WF_vars(Finish)

\* SpecFamilies: a caller who awaits each lookup of h, with the ADDRCONFIG
\* hint or with no hint, and who calls clearSupportedFamilies in between.
NextFamilies ==
    \/ \E family \in FamilyValues, hints \in {{}, {ADDRCONFIG}} :
          \E ifaces \in Interfaces(HostName, hints) :
             /\ Len(lookups) < MaxConsults
             /\ Idle
             /\ Lookup(HostName, family, hints, FALSE, ifaces)
    \/ \E c \in 1..Len(calls), ttls \in LongTtlSeqs : SettleOk(c, ttls)
    \/ \E c \in 1..Len(calls), code \in ExternalCodes : SettleError(c, code)
    \/ Store
    \/ Resume
    \/ Cleanup
    \/ Wrap
    \/ Combine
    \/ Finish
    \/ Idle /\ ClearSupportedFamilies

SpecFamilies == Init /\ [][NextFamilies]_vars

\* Spec: a caller of lookupPromise with any hostname and options, who awaits
\* each lookup before the next call, and who calls setDefaults and
\* clearSupportedFamilies in between; the clock standing still.
Next ==
    \/ \E hostname \in {"", HostName}, family \in FamilyValues,
          hints \in HintValues, all \in BOOLEAN :
          \E ifaces \in Interfaces(hostname, hints) :
             /\ Len(lookups) < MaxAwaited
             /\ Idle
             /\ Lookup(hostname, family, hints, all, ifaces)
    \/ \E c \in 1..Len(calls), ttls \in LongTtlSeqs : SettleOk(c, ttls)
    \/ \E c \in 1..Len(calls), code \in ExternalCodes : SettleError(c, code)
    \/ Store
    \/ Resume
    \/ Cleanup
    \/ Wrap
    \/ Combine
    \/ Finish
    \/ \E hasFamily \in BOOLEAN, hasHints \in BOOLEAN :
          \E family \in IF hasFamily THEN DefaultFamilyValues ELSE {JsUndefined},
             hints \in IF hasHints THEN DefaultHintValues ELSE {{}} :
             /\ Idle
             /\ SetDefaults(hasFamily, family, hasHints, hints)
    \/ Idle /\ ClearSupportedFamilies

Spec == Init /\ [][Next]_vars

\* The hints of the callers who do not await one another: none, or one flag
\* that changes the path of the lookup
ConcurrentHints == {{}, {ADDRCONFIG}, {V4MAPPED}}

\* SpecConcurrent: callers of lookupPromise with any hostname and options
\* who do not await one another, the defaults as they are at start and the
\* clock standing still.
NextConcurrent ==
    \/ \E hostname \in {"", HostName}, family \in FamilyValues,
          hints \in ConcurrentHints, all \in BOOLEAN :
          \E ifaces \in Interfaces(hostname, hints) :
             /\ Len(lookups) < MaxCallers
             /\ Lookup(hostname, family, hints, all, ifaces)
    \/ \E c \in 1..Len(calls), ttls \in LongTtlSeqs : SettleOk(c, ttls)
    \/ \E c \in 1..Len(calls), code \in ExternalCodes : SettleError(c, code)
    \/ Store
    \/ Resume
    \/ Cleanup
    \/ Wrap
    \/ Combine
    \/ Finish

SpecConcurrent == Init /\ [][NextConcurrent]_vars

\* SpecConcurrentFair: SpecConcurrent, where every external call settles in
\* the end and a promise job that is queued runs.
SpecConcurrentFair ==
    /\ SpecConcurrent
    /\ \A c \in 1..(2 * MaxCallers) :
          WF_vars(c <= Len(calls) /\
                  \/ \E ttls \in LongTtlSeqs : SettleOk(c, ttls)
                  \/ \E code \in ExternalCodes : SettleError(c, code))
    /\ WF_vars(Store)
    /\ WF_vars(Resume)
    /\ WF_vars(Cleanup)
    /\ WF_vars(Wrap)
    /\ WF_vars(Combine)
    /\ WF_vars(Finish)

\* ------------------------------------------------------------------ claims
\* The records of a list as resolve() hands them out
RecordsOf(items) ==
    [i \in 1..Len(items) |-> [address |-> items[i].address, family |-> items[i].family]]

\* val is what resolve() returns of the list items: all of it, or one record
ServedFrom(val, items, all) ==
    IF all
    THEN val = RecordsOf(items)
    ELSE \E i \in 1..Len(items) : val = <<RecordsOf(items)[i]>>

\* The branch of the i-th resolve() call that awaits call c
WaiterBranch(c, i) == lookups[calls[c].waiters[i][1]].br[calls[c].waiters[i][2]]
WaiterLookup(c, i) == lookups[calls[c].waiters[i][1]]

\* The lookup the last step issued asks resolve() for family f alone
IssuedSingle(f) ==
    /\ issued' # <<>>
    /\ issued'[1].path = "single"
    /\ issued'[1].options.family = JsNum(f)

\* C1: callers of resolve(h, f) that arrive while the key is not cached and
\* its external resolution has not settled share one external call: there
\* is never more than one call for a key, every caller that waits is a
\* waiter of the call of its key, and once the call has settled every waiter
\* that has resumed holds the outcome of that call: the records of its one
\* list (all of them, or one of them), or the call's error, a resolver
\* ENODATA / ENONAME turned into ENOTFOUND.
C1_SingleFlight ==
    /\ \A c1, c2 \in 1..Len(calls) :
          (/\ calls[c1].state # "done"
           /\ calls[c2].state # "done"
           /\ calls[c1].key = calls[c2].key) => c1 = c2
    /\ \A l \in 1..Len(lookups), f \in Families :
          lookups[l].br[f].st = "wait" =>
             LET c == lookups[l].br[f].call
             IN  /\ c \in 1..Len(calls)
                 /\ calls[c].state # "done"
                 /\ calls[c].key = Key(lookups[l].hostname, f)
                 /\ \E i \in 1..Len(calls[c].waiters) : calls[c].waiters[i] = <<l, f>>
    /\ \A c \in 1..Len(calls) : \A i \in 1..Len(calls[c].waiters) :
          LET b == WaiterBranch(c, i)
              e == calls[c].reason
          IN  /\ calls[c].state = "pending" => b.st = "wait" /\ b.call = c
              /\ (calls[c].state = "fulfilled" /\ b.st \in {"ok", "err"}) =>
                    /\ b.st = "ok"
                    /\ ServedFrom(b.val, lists[calls[c].value].items, WaiterLookup(c, i).all)
              /\ (calls[c].state = "rejected" /\ b.st \in {"ok", "err"}) =>
                    /\ b.st = "err"
                    /\ e.code \notin {NODATA, NONAME} => b.err = e
                    /\ e.code \in {NODATA, NONAME} =>
                          /\ b.err.code = NOTFOUND
                          /\ b.err.errno = e.code
                    /\ \A j \in 1..Len(calls[c].waiters) :
                          WaiterBranch(c, j).st = "err" => WaiterBranch(c, j).err = b.err

\* Three callers have resumed from one fulfilled call
C1_Witness ==
    \E c \in 1..Len(calls) :
       /\ calls[c].state = "fulfilled"
       /\ Len(calls[c].waiters) >= 3
       /\ \A i \in 1..Len(calls[c].waiters) : WaiterBranch(c, i).st = "ok"

\* C2: a resolve(h, f) issued while the cache holds an entry for h_f and the
\* clock is strictly before the entry's expiry is served from the cached list
\* and makes no external call: the cache, the pending map and the calls stay
\* as they are.
C2_CacheHit ==
    [][\A f \in Families :
          (/\ IssuedSingle(f)
           /\ Key(issued'[1].hostname, f) \in DOMAIN cache
           /\ now < cache[Key(issued'[1].hostname, f)].expiry)
          => LET key == Key(issued'[1].hostname, f)
                 b == lookups'[Len(lookups')].br[f]
             IN  /\ issued'[1].src[f] = "cache"
                 /\ calls' = calls
                 /\ pendingLookups' = pendingLookups
                 /\ cache' = cache
                 /\ b.st = "ok"
                 /\ ServedFrom(b.val, lists[cache[key].records].items, issued'[1].all)
      ]_vars

\* A lookup was served from the cache after the clock had moved on
C2_Witness ==
    /\ issued # <<>>
    /\ issued[1].src[IPv4] = "cache"
    /\ now > 0
    /\ calls = <<>>

\* C3: the expiry of an entry that is written is the time of the write plus
\* the least ttl of its records, in seconds; a resolve(h, f) issued when the
\* clock has reached the expiry of the entry of h_f finds the entry deleted
\* by get and begins a new external call.
C3_Expiry ==
    [][/\ \A k \in DOMAIN cache' :
             (k \notin DOMAIN cache \/ cache'[k] # cache[k]) =>
                LET items == lists'[cache'[k].records].items
                IN  \E i \in 1..Len(items) :
                       /\ cache'[k].expiry = now + items[i].ttl * MsPerSec
                       /\ \A j \in 1..Len(items) : items[i].ttl <= items[j].ttl
       /\ \A f \in Families :
             (/\ IssuedSingle(f)
              /\ Key(issued'[1].hostname, f) \in DOMAIN cache
              /\ cache[Key(issued'[1].hostname, f)].expiry <= now)
             => LET key == Key(issued'[1].hostname, f)
                IN  /\ key \notin DOMAIN cache'
                    /\ f \in issued'[1].deleted
                    /\ issued'[1].src[f] = "new"
                    /\ \E c \in 1..Len(calls') :
                          /\ calls'[c].state = "pending"
                          /\ calls'[c].key = key
                          /\ c > Len(calls) \/ calls[c].state = "done"
      ]_vars

\* A lookup found its entry expired a second or more into the run, got it
\* deleted and began a new call
C3_Witness ==
    /\ issued # <<>>
    /\ IPv4 \in issued[1].deleted
    /\ issued[1].src[IPv4] = "new"
    /\ now >= MsPerSec
    /\ cache = <<>>

\* C4: the k-th time roundRobin serves from a list of n records, it serves
\* the record at index (k-1) mod n, and that record is what the resolve()
\* call gets.
C4_RoundRobin ==
    [][\A i \in 1..Len(lists) :
          (/\ i <= Len(lists')
           /\ lists'[i].items = lists[i].items
           /\ Len(lists'[i].served) = Len(lists[i].served) + 1)
          => LET n == Len(lists[i].items)
                 k == Len(lists'[i].served)
                 e == lists[i].items[((k - 1) % n) + 1]
             IN  /\ lists'[i].served[k] = (k - 1) % n
                 /\ \E l \in 1..Len(lookups'), f \in Families :
                       /\ l > Len(lookups) \/ lookups'[l].br[f] # lookups[l].br[f]
                       /\ lookups'[l].br[f].st = "ok"
                       /\ lookups'[l].br[f].val =
                             <<[address |-> e.address, family |-> e.family]>>
      ]_vars

\* Four single-result lookups were served from a list of three records
C4_Witness ==
    \E i \in 1..Len(lists) :
       /\ Len(lists[i].items) = 3
       /\ lists[i].served = <<0, 1, 2, 0>>

\* C7: the cache holds no entry with an empty record list; and when the
\* resolver answers with zero records, pendingPromise is rejected with the
\* not-found error of syscall getaddrinfo and no errno, no entry is written
\* for the key, and that error is what every waiter resumes with.
C7_ZeroRecords ==
    /\ \A k \in DOMAIN cache : Len(lists[cache[k].records].items) > 0
    /\ \A c \in 1..Len(calls) :
          calls[c].answered = 0 =>
             /\ calls[c].state = "rejected"
             /\ calls[c].key \notin DOMAIN cache
             /\ \A i \in 1..Len(calls[c].waiters) :
                   WaiterBranch(c, i).st \in {"ok", "err"} =>
                      /\ WaiterBranch(c, i).st = "err"
                      /\ WaiterBranch(c, i).err.code = NOTFOUND
                      /\ WaiterBranch(c, i).err.syscall = "getaddrinfo"
                      /\ WaiterBranch(c, i).err.errno = "undefined"

\* Two callers have resumed from a call that was answered with zero records
C7_Witness ==
    \E c \in 1..Len(calls) :
       /\ calls[c].answered = 0
       /\ Len(calls[c].waiters) >= 2
       /\ \A i \in 1..Len(calls[c].waiters) : WaiterBranch(c, i).st = "err"

\* C8: while a failed external resolution is being delivered the cache stays
\* exactly as it is and no external call begins; when the failure's last job
\* has run, neither the cache nor the pending map holds the key; and a
\* resolve(h, f) that finds the key in neither begins a new external call.
C8_FailureForgotten ==
    [][/\ (\/ \E c \in 1..Len(calls) : calls[c].state = "rejected"
           \/ \E c \in 1..Len(calls') : calls'[c].state = "rejected")
          => /\ cache' = cache
             /\ \A c \in 1..Len(calls') :
                   calls'[c].state = "pending" =>
                      /\ c <= Len(calls)
                      /\ calls[c].state = "pending"
                      /\ calls[c].key = calls'[c].key
       /\ \A c \in 1..Len(calls) :
             (/\ calls[c].state = "rejected"
              /\ c > Len(calls') \/ calls'[c].state # "rejected")
             => /\ calls[c].key \notin DOMAIN cache'
                /\ calls[c].key \notin DOMAIN pendingLookups'
       /\ \A f \in Families :
             (/\ IssuedSingle(f)
              /\ Key(issued'[1].hostname, f) \notin DOMAIN cache
              /\ Key(issued'[1].hostname, f) \notin DOMAIN pendingLookups)
             => /\ issued'[1].src[f] = "new"
                /\ \E c \in 1..Len(calls') :
                      /\ calls'[c].state = "pending"
                      /\ calls'[c].key = Key(issued'[1].hostname, f)
                      /\ c > Len(calls) \/ calls[c].state = "done"
                      /\ PendingGet(pendingLookups', calls'[c].key) = c
      ]_vars

\* A resolver failure has reached its caller: the entry of the other key is
\* still cached, and nothing is kept of the key that failed
C8_Witness ==
    /\ settled # <<>>
    /\ settled[1].state = "rejected"
    /\ settled[1].reason.code = "ESERVFAIL"
    /\ cache # <<>>
    /\ \E f \in Families :
          /\ settled[1].br[f].st = "err"
          /\ Key(settled[1].hostname, f) \notin DOMAIN cache
          /\ Key(settled[1].hostname, f) \notin DOMAIN pendingLookups

\* What a family brings to the combination: the records its resolve() call
\* returned, none if the call threw not-found
Brings(lk, f) == IF lk.br[f].st = "ok" THEN lk.br[f].val ELSE <<>>

NotFoundOrOk(b) == b.st = "ok" \/ (b.st = "err" /\ b.err.code = NOTFOUND)

OtherError(b) == b.st = "err" /\ b.err.code # NOTFOUND

\* C5: a dual-stack lookup whose two families each returned records or were
\* not found settles with IPv4's records followed by IPv6's if all is set,
\* with IPv4's records if there are any and IPv6's otherwise if all is not
\* set, and with the not-found error for the hostname if that is empty.
C5_Combine ==
    \A n \in 1..Len(settled) :
       LET lk == settled[n]
           V4 == Brings(lk, IPv4)
           V6 == Brings(lk, IPv6)
           R == IF lk.all THEN V4 \o V6 ELSE IF V4 # <<>> THEN V4 ELSE V6
       IN  (lk.path = "both" /\ \A f \in Families : NotFoundOrOk(lk.br[f])) =>
              IF R = <<>>
              THEN /\ lk.state = "rejected"
                   /\ lk.reason.code = NOTFOUND
                   /\ lk.reason.syscall = "getaddrinfo"
                   /\ lk.reason.hostname = lk.hostname
              ELSE /\ lk.state = "fulfilled"
                   /\ lk.value = R

\* A dual-stack lookup with all set returned an IPv4 record and then an
\* IPv6 record
C5_Witness ==
    /\ settled # <<>>
    /\ settled[1].path = "both"
    /\ settled[1].all
    /\ settled[1].state = "fulfilled"
    /\ Len(settled[1].value) = 2
    /\ settled[1].value[1].family = IPv4
    /\ settled[1].value[2].family = IPv6

\* The original C6: every error other than not-found that a family's
\* resolve() call throws is the error the combined lookup fails with.
C6_EveryError ==
    [][(mq # <<>> /\ Head(mq).kind = "wrap") =>
          LET l == Head(mq).lookup
              b == lookups[l].br[Head(mq).family]
          IN  OtherError(b) =>
                 IF lookups[l].both = "pending"
                 THEN lookups'[l].both = "rejected" /\ lookups'[l].thrown = b.err
                 ELSE lookups[l].both = "rejected" /\ lookups[l].thrown = b.err
      ]_vars

\* C6, amended: in a dual-stack lookup a family that was not found does not
\* fail the lookup when the other family has records; the first error other
\* than not-found that a family's resolve() call throws fails the lookup with
\* that error, even if the other family succeeded; and if the other family
\* then throws too, its error reaches nobody.
C6_FirstError ==
    [][/\ (mq # <<>> /\ Head(mq).kind = "wrap") =>
             LET l == Head(mq).lookup
                 b == lookups[l].br[Head(mq).family]
             IN  /\ (OtherError(b) /\ lookups[l].both = "pending") =>
                       /\ lookups'[l].both = "rejected"
                       /\ lookups'[l].thrown = b.err
                       /\ mq' # <<>>
                       /\ mq'[Len(mq')].kind = "finish"
                       /\ mq'[Len(mq')].lookup = l
                 /\ (OtherError(b) /\ lookups[l].both # "pending") =>
                       /\ lookups[l].both = "rejected"
                       /\ settled' = <<>>
                       /\ mq' = Tail(mq)
                 /\ (NotFoundOrOk(b) /\ lookups[l].both = "pending") =>
                       lookups'[l].both # "rejected"
       /\ \A n \in 1..Len(settled') :
             LET lk == settled'[n]
             IN  lk.path \in {"both", "mapped"} =>
                    /\ lk.both = "rejected" =>
                          /\ lk.state = "rejected"
                          /\ lk.reason = lk.thrown
                          /\ \E f \in Families :
                                OtherError(lk.br[f]) /\ lk.br[f].err = lk.thrown
                    /\ (\E f, g \in Families :
                          /\ lk.br[f].st = "err"
                          /\ lk.br[f].err.code = NOTFOUND
                          /\ lk.br[g].st = "ok"
                          /\ lk.br[g].val # <<>>) => lk.state = "fulfilled"
      ]_vars

\* A dual-stack lookup failed with the resolver's error for one family
\* though the other family had returned a record
C6_Witness ==
    /\ settled # <<>>
    /\ settled[1].path \in {"both", "mapped"}
    /\ settled[1].state = "rejected"
    /\ settled[1].reason.code = "ESERVFAIL"
    /\ \E f \in Families : settled[1].br[f].st = "ok" /\ settled[1].br[f].val # <<>>

\* C9: a lookup with an empty hostname begins no external call and leaves
\* the cache, the pending map and the supported-family cache as they are; it
\* returns at once, [] if all is set, and otherwise the null address, tagged
\* IPv6 if the family asked for (the default family if none is) is IPv6 and
\* IPv4 if not.
C9_EmptyHostname ==
    [][(issued' # <<>> /\ issued'[1].hostname = "") =>
          LET family == IF Falsy(issued'[1].family)
                        THEN cacheDnsDefaults.defaultFamily
                        ELSE issued'[1].family
          IN  /\ cache' = cache
              /\ pendingLookups' = pendingLookups
              /\ calls' = calls
              /\ mq' = mq
              /\ cachedSupportedFamilies' = cachedSupportedFamilies
              /\ ~issued'[1].enumerated
              /\ Len(settled') = 1
              /\ settled'[1].state = "fulfilled"
              /\ issued'[1].all =>
                    settled'[1].shape = "list" /\ settled'[1].value = <<>>
              /\ ~issued'[1].all =>
                    /\ settled'[1].shape = "one"
                    /\ settled'[1].value =
                          <<[address |-> NullAddress,
                             family |-> IF family = JsNum(IPv6) THEN IPv6 ELSE IPv4]>>
      ]_vars

\* A single-result lookup with an empty hostname, family 6 and the
\* ADDRCONFIG hint returned the null address tagged IPv6
C9_Witness ==
    /\ issued # <<>>
    /\ issued[1].hostname = ""
    /\ issued[1].family = JsNum(IPv6)
    /\ ADDRCONFIG \in issued[1].hints
    /\ ~issued[1].all
    /\ settled # <<>>
    /\ settled[1].value = <<[address |-> NullAddress, family |-> IPv6]>>

\* C10: a lookup with a hostname and the ADDRCONFIG hint that names no
\* family, with no default family set, on a host whose interfaces support
\* the one family F (getSupportedFamilies() returns the Set entry of F),
\* adopts F: it asks resolve() for family F and for nothing else.
C10_Adopts ==
    \A F \in Families :
       (/\ issued # <<>>
        /\ issued[1].hostname # ""
        /\ ADDRCONFIG \in issued[1].options.hints
        /\ issued[1].supported = SetEntriesFirst({F})
        /\ issued[1].family = JsUndefined
        /\ cacheDnsDefaults.defaultFamily = JsUndefined)
       => /\ issued[1].path = "single"
          /\ issued[1].options.family = JsNum(F)
          /\ issued[1].src[F] # "none"

\* C11: a lookup with a hostname and the ADDRCONFIG hint that names the
\* family G, on a host whose interfaces support the one family F, is
\* rejected with not-found before any resolve() call if and only if G is not
\* F; if G is F it asks resolve() for family F.
C11_ExplicitFamily ==
    \A F \in Families, G \in Families :
       (/\ issued # <<>>
        /\ issued[1].hostname # ""
        /\ ADDRCONFIG \in issued[1].options.hints
        /\ issued[1].supported = SetEntriesFirst({F})
        /\ issued[1].family = JsNum(G))
       => /\ issued[1].path = "reject" <=> G # F
          /\ G = F => /\ issued[1].path \in {"single", "mapped"}
                      /\ issued[1].src[F] # "none"

\* The combined records of a dual-stack lookup, before any mapping
Combined(lk) ==
    IF lk.all THEN Brings(lk, IPv4) \o Brings(lk, IPv6)
    ELSE IF Brings(lk, IPv4) # <<>> THEN Brings(lk, IPv4)
    ELSE Brings(lk, IPv6)

Returned(lk, r) == \E i \in 1..Len(lk.value) : lk.value[i] = r

\* C12: a lookup with family IPv6 and the V4MAPPED hint that succeeds
\* returns, without the ALL hint, only addresses tagged IPv6, each IPv4
\* record of the combined records in its IPv4-mapped form and not as it was;
\* with the ALL hint it returns each IPv4 record of the combined records
\* both as it was and in its IPv4-mapped form.
C12_Mapped ==
    \A n \in 1..Len(settled) :
       LET lk == settled[n]
           R == Combined(lk)
       IN  (lk.path = "mapped" /\ lk.state = "fulfilled") =>
              \A i \in 1..Len(R) :
                 R[i].family = IPv4 =>
                    LET m == [address |-> toIPv4MappedAddress(R[i].address),
                              family |-> IPv6]
                    IN  IF ALL \in lk.hints
                        THEN Returned(lk, R[i]) /\ Returned(lk, m)
                        ELSE /\ Returned(lk, m)
                             /\ ~Returned(lk, R[i])
                             /\ \A j \in 1..Len(lk.value) : lk.value[j].family = IPv6

\* C13: a lookup that settles has a result or an error, never both: a
\* rejected lookup carries no value, a fulfilled one no error, and no
\* lookup is fulfilled when one of its resolve() calls threw an error other
\* than not-found; a fulfilled lookup with a hostname never has an empty
\* list (all) or an undefined address (single result) for its value.
C13_ResultOrError ==
    \A n \in 1..Len(settled) :
       LET lk == settled[n]
       IN  /\ lk.state \in {"fulfilled", "rejected"}
           /\ lk.state = "rejected" =>
                 /\ lk.reason # NoError
                 /\ lk.value = <<>>
                 /\ lk.shape = ""
           /\ lk.state = "fulfilled" =>
                 /\ lk.reason = NoError
                 /\ \A f \in Families : ~OtherError(lk.br[f])
                 /\ lk.shape = IF lk.all THEN "list" ELSE "one"
                 /\ lk.hostname # "" => lk.value # <<>>
                 /\ ~lk.all => Len(lk.value) = 1

\* A dual-stack lookup neither family of which was found is rejected with
\* not-found
C13_Witness ==
    /\ settled # <<>>
    /\ settled[1].path = "both"
    /\ settled[1].state = "rejected"
    /\ settled[1].reason.code = NOTFOUND
    /\ \A f \in Families : settled[1].br[f].st = "err"

\* The family a lookup asks for: the one it names, the default one if it
\* names none
AskedFamily == IF Falsy(issued[1].family)
               THEN cacheDnsDefaults.defaultFamily
               ELSE issued[1].family

\* A family value that is neither unset nor IPv4 nor IPv6
NoFamily(x) == x.t = "number" /\ x.v[1] \notin {0, IPv4, IPv6}

NoResolve == \A f \in Families : issued[1].src[f] = "none"

\* The original C14: every lookup that asks for a family value other than
\* unset, IPv4 or IPv6 is rejected with the invalid-family error and makes
\* no resolve() call.
C14_AlwaysInvalid ==
    (issued # <<>> /\ NoFamily(AskedFamily)) =>
       /\ NoResolve
       /\ settled # <<>>
       /\ settled[1].state = "rejected"
       /\ settled[1].reason = InvalidFamilyError

\* C14, amended: a lookup with a hostname that asks for a family value other
\* than unset, IPv4 or IPv6 makes no resolve() call and is rejected at once:
\* with the invalid-family error, unless the hints hold ADDRCONFIG and the
\* host supports one family only, when it is rejected with not-found.
C14_InvalidFamily ==
    (issued # <<>> /\ issued[1].hostname # "" /\ NoFamily(AskedFamily)) =>
       /\ NoResolve
       /\ settled # <<>>
       /\ settled[1].state = "rejected"
       /\ IF ADDRCONFIG \in issued[1].options.hints /\ issued[1].supported # JsUndefined
          THEN /\ settled[1].reason.code = NOTFOUND
               /\ settled[1].reason.syscall = "getaddrinfo"
          ELSE settled[1].reason = InvalidFamilyError

\* A lookup that names no family was rejected for the default family 5
C14_Witness ==
    /\ issued # <<>>
    /\ issued[1].hostname # ""
    /\ issued[1].family = JsUndefined
    /\ cacheDnsDefaults.defaultFamily = JsNum(5)
    /\ settled # <<>>
    /\ settled[1].reason = InvalidFamilyError

\* The keys of the pending map
Keys == {Key(HostName, f) : f \in Families}

\* The calls for key k that are not forgotten, and those that have settled
LiveCalls(k) == {c \in 1..Len(calls) : calls[c].key = k /\ calls[c].state # "done"}
SettledCalls(k) == {c \in LiveCalls(k) : calls[c].state # "pending"}

\* Every entry of the pending map is the one call of its key, which has not
\* settled or whose cache write or removal is still queued; and every call
\* that has not settled has its entry.
PendingSound ==
    /\ \A k \in DOMAIN pendingLookups :
          LET c == pendingLookups[k]
          IN  /\ LiveCalls(k) = {c}
              /\ calls[c].state # "pending" =>
                    \E i \in 1..Len(mq) :
                       mq[i].kind \in {"store", "cleanup"} /\ mq[i].call = c
    /\ \A c \in 1..Len(calls) :
          calls[c].state = "pending" => PendingGet(pendingLookups, calls[c].key) = c
    /\ mq = <<>> =>
          \A k \in Keys : k \in DOMAIN pendingLookups <=>
                          \E c \in LiveCalls(k) : calls[c].state = "pending"

\* C15: the pending map holds a key only from the miss that begins the
\* external call of the key until that call has settled and its jobs have
\* run, never two calls for one key; and once the call of a key has settled,
\* fulfilled or rejected, the entry of the key is eventually removed.
C15_NoLeak ==
    /\ []PendingSound
    /\ \A k \in Keys : (SettledCalls(k) # {}) ~> (k \notin DOMAIN pendingLookups)

\* The call of a key was rejected, all its waiters have resumed, and the
\* removal of its entry is the next job
C15_Witness ==
    \E c \in 1..Len(calls) :
       /\ calls[c].state = "rejected"
       /\ calls[c].key \in DOMAIN pendingLookups
       /\ mq # <<>>
       /\ Head(mq).kind = "cleanup"
       /\ Head(mq).call = c

\* C16: when the pending entry of a fulfilled call is removed, the cache
\* already holds the call's records for the key; an entry leaves the cache
\* only when the clock has reached its expiry; and an external call begins
\* only for a key that the cache does not hold or whose entry has expired.
\* So from the removal of the pending entry until the expiry of the entry no
\* lookup for the key begins a second call.
C16_WriteBeforeRemoval ==
    [][/\ \A c \in 1..Len(calls) :
             (/\ calls[c].state = "fulfilled"
              /\ calls[c].key \in DOMAIN pendingLookups
              /\ calls[c].key \notin DOMAIN pendingLookups')
             => /\ calls[c].key \in DOMAIN cache
                /\ cache[calls[c].key].records = calls[c].value
                /\ cache' = cache
       /\ \A k \in DOMAIN cache :
             k \notin DOMAIN cache' => cache[k].expiry <= now
       /\ \A c \in 1..Len(calls') :
             (/\ calls'[c].state = "pending"
              /\ c > Len(calls) \/ calls[c].state = "done")
             => /\ calls'[c].key \notin DOMAIN pendingLookups
                /\ \/ calls'[c].key \notin DOMAIN cache
                   \/ cache[calls'[c].key].expiry <= now
      ]_vars

\* The pending entry of a fulfilled call has just been removed, its result
\* is about to reach the caller, and the cache holds the key, not expired
C16_Witness ==
    /\ pendingLookups = <<>>
    /\ mq # <<>>
    /\ Head(mq).kind = "finish"
    /\ lookups[Head(mq).lookup].br[IPv4].st = "ok"
    /\ calls = <<>>
    /\ Key(HostName, IPv4) \in DOMAIN cache
    /\ now < cache[Key(HostName, IPv4)].expiry

\* C17: a lookup that consults getSupportedFamilies enumerates the
\* interfaces if and only if no value is cached (the cache is null): it then
\* caches what it computed, undefined included; otherwise it gets the cached
\* value and leaves it. A lookup that does not consult it enumerates
\* nothing. A cached value changes only by becoming null, which
\* clearSupportedFamilies does, and which makes the next consulting lookup
\* enumerate again.
C17_ComputedOnce ==
    [][/\ (issued' # <<>> /\ issued'[1].consulted) =>
             /\ issued'[1].enumerated <=> cachedSupportedFamilies = JsNull
             /\ cachedSupportedFamilies' = issued'[1].supported
             /\ cachedSupportedFamilies' # JsNull
             /\ ~issued'[1].enumerated =>
                   cachedSupportedFamilies' = cachedSupportedFamilies
       /\ (issued' # <<>> /\ ~issued'[1].consulted) =>
             /\ ~issued'[1].enumerated
             /\ cachedSupportedFamilies' = cachedSupportedFamilies
       /\ (/\ cachedSupportedFamilies # JsNull
           /\ cachedSupportedFamilies' # cachedSupportedFamilies)
          => cachedSupportedFamilies' = JsNull /\ issued' = <<>>
      ]_vars

\* A second lookup with ADDRCONFIG got the cached undefined without
\* enumerating the interfaces
C17_Witness ==
    /\ issued # <<>>
    /\ issued[1].consulted
    /\ ~issued[1].enumerated
    /\ issued[1].supported = JsUndefined
    /\ cachedSupportedFamilies = JsUndefined
    /\ Len(lookups) = 2

\* C18: when the resolver fails with ENODATA or ENONAME, every waiter of
\* the call resumes with an error of code ENOTFOUND whose errno is the
\* resolver's code, whose syscall is the resolver's syscall and whose
\* hostname is the hostname asked for; when it fails with another code,
\* every waiter resumes with the resolver's error as it is; and the error a
\* waiter resumed with is the error its lookup is rejected with.
C18_Translation ==
    /\ \A c \in 1..Len(calls) : \A i \in 1..Len(calls[c].waiters) :
          LET e == calls[c].reason
              b == WaiterBranch(c, i)
          IN  (/\ calls[c].state = "rejected"
               /\ calls[c].answered = -1
               /\ b.st \in {"ok", "err"})
              => /\ b.st = "err"
                 /\ IF e.code \in {NODATA, NONAME}
                    THEN /\ b.err.code = NOTFOUND
                         /\ b.err.errno = e.code
                         /\ b.err.syscall = e.syscall
                         /\ b.err.hostname = WaiterLookup(c, i).hostname
                    ELSE b.err = e
    /\ \A n \in 1..Len(settled) :
          (settled[n].path = "single" /\ settled[n].state = "rejected") =>
             \E f \in Families :
                /\ settled[n].br[f].st = "err"
                /\ settled[n].reason = settled[n].br[f].err

\* Two callers have resumed from a call the resolver failed with ENODATA
C18_Witness ==
    \E c \in 1..Len(calls) :
       /\ calls[c].state = "rejected"
       /\ calls[c].reason.code = NODATA
       /\ Len(calls[c].waiters) >= 2
       /\ \A i \in 1..Len(calls[c].waiters) :
             /\ WaiterBranch(c, i).st = "err"
             /\ WaiterBranch(c, i).err.errno = NODATA

\* C19: the cursor is kept on the record list. A list that a resolution
\* produces starts with no cursor and nothing served, whatever was served
\* from the list it replaces; the first single-result lookup served from it
\* gets its element 0; and the cursor of a list moves only when a
\* single-result lookup is served from that list, to the index served.
C19_CursorPerList ==
    [][/\ \A i \in 1..Len(lists') :
             (/\ lists'[i] # NoList
              /\ i > Len(lists) \/ lists[i].items # lists'[i].items)
             => lists'[i].rr = <<>> /\ lists'[i].served = <<>>
       /\ \A i \in 1..Len(lists) :
             (i <= Len(lists') /\ lists'[i].items = lists[i].items) =>
                /\ lists'[i].served = lists[i].served =>
                      lists'[i].rr = lists[i].rr
                /\ lists'[i].served # lists[i].served =>
                      /\ Len(lists'[i].served) = Len(lists[i].served) + 1
                      /\ lists'[i].rr # <<>>
                      /\ Len(lists[i].items) > 1 =>
                            lists'[i].rr[1] = lists'[i].served[Len(lists'[i].served)]
                      /\ lists[i].served = <<>> =>
                            /\ lists'[i].served = <<0>>
                            /\ \E l \in 1..Len(lookups'), f \in Families :
                                  /\ \/ l > Len(lookups)
                                     \/ lookups'[l].br[f] # lookups[l].br[f]
                                  /\ lookups'[l].br[f].val =
                                        <<RecordsOf(lists[i].items)[1]>>
      ]_vars

\* After three earlier lookups and a second or more, a list of several
\* records that is cached has served its element 0 and no other
C19_Witness ==
    /\ now >= MsPerSec
    /\ Len(lookups) = 4
    /\ \A l \in 1..3 : lookups[l].state = "done"
    /\ \E k \in DOMAIN cache :
          /\ Len(lists[cache[k].records].items) > 1
          /\ lists[cache[k].records].served = <<0>>
          /\ cache[k].expiry > now

\* C20: if every external call settles in the end, every lookup that is
\* pending settles in the end, every resolve() that waits on a call, its own
\* or one it joined, for one family or as one of the two branches of
\* resolveBoth, resumes in the end with a result or an error, and a lookup
\* that needs no external call is settled by the step that issues it.
C20_Terminates ==
    /\ [](\A n \in 1..Len(issued) :
             issued[n].path \in {"empty", "reject", "invalid"} =>
                /\ Len(settled) = 1
                /\ settled[1].state \in {"fulfilled", "rejected"})
    /\ \A l \in 1..MaxCallers :
          (l <= Len(lookups) /\ lookups[l].state = "pending")
             ~> (l <= Len(lookups) /\ lookups[l].state # "pending")
    /\ \A l \in 1..MaxCallers : \A f \in Families :
          (l <= Len(lookups) /\ lookups[l].br[f].st = "wait")
             ~> (l <= Len(lookups) /\ lookups[l].br[f].st \in {"ok", "err"})

\* A dual-stack lookup and a lookup that joined its IPv4 call are pending
\* while both calls are
C20_Witness ==
    /\ Len(lookups) = 2
    /\ Len(calls) = 2
    /\ \A c \in 1..2 : calls[c].state = "pending"
    /\ \E l \in 1..2 :
          /\ lookups[l].path = "both"
          /\ lookups[l].state = "pending"
          /\ \A f \in Families : lookups[l].br[f].st = "wait"
          /\ \E o \in 1..2 :
                /\ o # l
                /\ lookups[o].path = "single"
                /\ lookups[o].state = "pending"
                /\ lookups[o].br[IPv4].st = "wait"
                /\ lookups[o].br[IPv4].call = lookups[l].br[IPv4].call

====
